---- MODULE Spec2Model ----
(***************************************************************************)
(* Model of src/visualization/visualize_police_incidents_map.py: the run   *)
(* of main() (load data, load or build the zip-code coordinate cache,      *)
(* aggregate the incidents, draw the markers, write the HTML map).         *)
(*                                                                         *)
(* Conventions                                                             *)
(*  - a Python string is a sequence of one-character strings, so that      *)
(*    str.upper, str.lower, int(), str(), substring search and string      *)
(*    comparison are computed and not assumed;                             *)
(*  - an optional value is <<>> (Python None) or <<v>>;                    *)
(*  - a dict is a function; a dict whose order matters (Incident_Counts)   *)
(*    is a sequence of <<key, value>> pairs in insertion order;            *)
(*  - a zip code is an integer, the missing value (NaN) is the integer 0;  *)
(*    int(zip_code) of an integral float is that integer;                  *)
(*  - a marker radius is the exact rational <<numerator, denominator>>.    *)
(***************************************************************************)
EXTENDS Integers, Sequences, FiniteSets, TLC

\* ---------------------------------------------------------------- bounds
MaxRows == 3        \* rows of the input file in the runs of main()
MaxAggRows == 2     \* rows of the input file in the aggregation runs

\* ------------------------------------------------------ program constants
DefaultDelayMs == 100      \* geocode_zip_code(zip_code, delay=0.1)
Year2024 == 2024           \* df["Year of Incident"] == 2024
NaN == 0                   \* the missing zip code
SizeWhenFlat == 15         \* scale_marker_size: max_count == min_count
SizeMin == 5               \* scale_marker_size: 5 + normalized * 25
SizeSpan == 25

\* ------------------------------------------------------------- optionals
None == <<>>
Some(v) == <<v>>
IsNone(o) == Len(o) = 0
Val(o) == o[1]

\* --------------------------------------------------------------- strings
UpperLetters ==
    <<"A","B","C","D","E","F","G","H","I","J","K","L","M",
      "N","O","P","Q","R","S","T","U","V","W","X","Y","Z">>
LowerLetters ==
    <<"a","b","c","d","e","f","g","h","i","j","k","l","m",
      "n","o","p","q","r","s","t","u","v","w","x","y","z">>
Digits == <<"0","1","2","3","4","5","6","7","8","9">>

Range(s) == {s[k] : k \in 1..Len(s)}
Index(s, c) == CHOOSE k \in 1..Len(s) : s[k] = c

\* code point of a character (ASCII); a character outside the tables
\* stands for the space
OrdTable ==
    [c \in Range(Digits) \cup Range(UpperLetters) \cup Range(LowerLetters) |->
        IF c \in Range(Digits) THEN 47 + Index(Digits, c)
        ELSE IF c \in Range(UpperLetters) THEN 64 + Index(UpperLetters, c)
        ELSE 96 + Index(LowerLetters, c)]
Ord(c) == IF c \in DOMAIN OrdTable THEN OrdTable[c] ELSE 32

\* str.upper() and str.lower()
UpperTable == [c \in Range(LowerLetters) |-> UpperLetters[Index(LowerLetters, c)]]
LowerTable == [c \in Range(UpperLetters) |-> LowerLetters[Index(UpperLetters, c)]]
UpperChar(c) == IF c \in DOMAIN UpperTable THEN UpperTable[c] ELSE c
LowerChar(c) == IF c \in DOMAIN LowerTable THEN LowerTable[c] ELSE c
Upper(s) == [k \in 1..Len(s) |-> UpperChar(s[k])]
Lower(s) == [k \in 1..Len(s) |-> LowerChar(s[k])]

\* kw in s
Contains(s, kw) ==
    \E k \in 1..(Len(s) - Len(kw) + 1) : SubSeq(s, k, k + Len(kw) - 1) = kw

\* s < t, Python's comparison of strings by code point
StrLess(s, t) ==
    \E k \in 1..(Len(t)) :
        /\ \A j \in 1..(k - 1) : j <= Len(s) /\ s[j] = t[j]
        /\ \/ k = Len(s) + 1
           \/ k <= Len(s) /\ Ord(s[k]) < Ord(t[k])

\* str(n) for n >= 0
RECURSIVE IntToStr(_)
IntToStr(n) ==
    IF n < 10 THEN <<Digits[n + 1]>>
    ELSE Append(IntToStr(n \div 10), Digits[(n % 10) + 1])

\* int(s): a ValueError unless s is a decimal literal
IsIntLiteral(s) == Len(s) > 0 /\ \A k \in 1..Len(s) : s[k] \in Range(Digits)
RECURSIVE StrToInt(_)
StrToInt(s) ==
    IF Len(s) = 0 THEN 0
    ELSE 10 * StrToInt(SubSeq(s, 1, Len(s) - 1)) + (Index(Digits, s[Len(s)]) - 1)

\* ------------------------------------------------------------- test data
Zips == {75201, 75204}

BURGLARY == <<"B","U","R","G","L","A","R","Y">>
Theft == <<"T","h","e","f","t">>
ASSAULT == <<"A","S","S","A","U","L","T">>
PropertyCrime == <<"P","r","o","p","e","r","t","y"," ","C","r","i","m","e">>

Row(c, z, t, y) == [count |-> c, zip |-> z, type |-> t, year |-> y]

\* rows of the runs of main(): every zip code case, one classified and one
\* unclassified incident type
FillRows == {Row(1, z, t, Year2024) : z \in Zips \cup {NaN}, t \in {BURGLARY, ASSAULT}}

\* rows of the aggregation runs
AggRows ==
    { Row(c, z, t, y) : c \in {1, 2}, z \in Zips \cup {NaN},
                        t \in {BURGLARY, Theft, ASSAULT}, y \in {Year2024 - 1, Year2024} }

SeqsUpTo(S, n) == UNION { [1..k -> S] : k \in 0..n }

\* the answers typed at the prompt
Answers == { <<"y">>, <<"Y">>, <<"n">>, <<>>, <<"y","e","s">> }

\* what one request to the geocoding service can end in
Outcomes == {"ok", "empty", "transport_error", "http_error", "unparsable"}

\* the coordinates the service answers for a zip code, and the ones an
\* existing cache file holds (not the same, so that a re-resolution shows)
ServiceCoord(z) == <<z % 100, -(z % 100)>>
FileCoord(z) == <<(z % 100) + 10, -(z % 100) - 10>>

\* ------------------------------------------------------------ cache file
MissingFile == [kind |-> "missing", obj |-> <<>>]
CorruptFile == [kind |-> "corrupt", obj |-> <<>>]
JsonFile(o) == [kind |-> "json", obj |-> o]
BadKeyFile == JsonFile([k \in {<<"x">>} |-> <<1, 1>>])
CacheOver(S) == [z \in S |-> FileCoord(z)]

\* json.dump(coordinates): integer keys are written as strings
ToJson(coordinates) ==
    [k \in {IntToStr(z) : z \in DOMAIN coordinates} |-> coordinates[StrToInt(k)]]

CacheFiles ==
    {MissingFile, CorruptFile, BadKeyFile} \cup {JsonFile(ToJson(CacheOver(S))) : S \in SUBSET Zips}

\* load_coordinates_cache: None when the file is missing, is not JSON, or
\* has a key int() rejects; otherwise the mapping with integer keys
load_coordinates_cache(file) ==
    IF file.kind = "missing" THEN None
    ELSE IF file.kind = "corrupt" THEN None
    ELSE IF \E k \in DOMAIN file.obj : ~IsIntLiteral(k) THEN None
    ELSE Some([z \in {StrToInt(k) : k \in DOMAIN file.obj} |->
                  file.obj[CHOOSE k \in DOMAIN file.obj : StrToInt(k) = z]])

\* save_coordinates_cache: the file written by open(cache_path, "w") and
\* json.dump
save_coordinates_cache(coordinates) == JsonFile(ToJson(coordinates))

\* ------------------------------------------------------------- geocoding
\* variant: only the errors of the request are caught, so a response
\* that is not JSON raises out of the function
geocode_zip_code_narrow_except(zip_code, outcome) ==
    [ events |-> << <<"sleep", DefaultDelayMs>>, <<"request", zip_code>> >>,
      raised |-> outcome = "unparsable",
      result |-> IF outcome = "ok" THEN Some(ServiceCoord(zip_code)) ELSE None ]

\* variant: the delay is taken after the request
geocode_zip_code_sleep_after(zip_code, outcome) ==
    [ events |-> << <<"request", zip_code>>, <<"sleep", DefaultDelayMs>> >>,
      raised |-> FALSE,
      result |-> IF outcome = "ok" THEN Some(ServiceCoord(zip_code)) ELSE None ]

\* geocode_zip_code(zip_code): the sleep, the request, and what is
\* returned; every exception is caught and None returned
geocode_zip_code(zip_code, outcome) ==
    [ events |-> << <<"sleep", DefaultDelayMs>>, <<"request", zip_code>> >>,
      raised |-> FALSE,
      result |-> IF outcome = "ok" THEN Some(ServiceCoord(zip_code)) ELSE None ]

\* df[df["Zip Code"].notna()]["Zip Code"].unique(): first-seen order
RECURSIVE unique(_)
unique(col) ==
    IF Len(col) = 0 THEN <<>>
    ELSE LET r == unique(SubSeq(col, 1, Len(col) - 1))
             x == col[Len(col)]
         IN IF x \in Range(r) THEN r ELSE Append(r, x)

ZipColumn(rows) == [k \in 1..Len(rows) |-> rows[k].zip]
notna(z) == z # NaN
UniqueZips(rows) == unique(SelectSeq(ZipColumn(rows), notna))

\* variant: the loop stops one zip code early
total_zips_short(uz) == Len(uz) - 1
\* total_zips = len(unique_zips), the bound of the loop
total_zips(uz) == Len(uz)

\* -------------------------------------------------- main()'s conditions
\* variant: the cache is rebuilt in every run
NeedsFillAlways(zc) == TRUE
\* if zip_coordinates is None
NeedsFill(zc) == IsNone(zc)
\* variant: only the answer n declines
DeclinedOnlyN(r) == Lower(r) = <<"n">>
\* if response.lower() != "y"
Declined(r) == Lower(r) # <<"y">>
\* variant: if zip_coordinates is not None
TruthyNotNone(coordinates) == TRUE
\* if zip_coordinates:  (a dict is true when it is not empty)
Truthy(coordinates) == DOMAIN coordinates # {}

\* ----------------------------------------------------------- aggregation
property_keywords ==
    { <<"B","U","R","G","L","A","R","Y">>,
      <<"T","H","E","F","T">>,
      <<"R","O","B","B","E","R","Y">>,
      <<"S","T","O","L","E","N">>,
      <<"B","R","E","A","K","I","N","G">>,
      <<"E","N","T","E","R","I","N","G">>,
      <<"L","A","R","C","E","N","Y">>,
      <<"E","M","B","E","Z","Z","L","E","M","E","N","T">>,
      <<"A","U","T","O"," ","T","H","E","F","T">>,
      <<"C","R","I","M","I","N","A","L"," ","M","I","S","C","H","I","E","F">>,
      <<"V","A","N","D","A","L","I","S","M">>,
      <<"S","H","O","P","L","I","F","T","I","N","G">> }

\* the mask of filter_for_burglary_property_incidents
IsProperty(type) ==
    LET upper == Upper(type)
    IN \E kw \in property_keywords : Contains(upper, kw)

\* df[df["Year of Incident"] == 2024]
InYear(r) == r.year = Year2024
df_2024(rows) == SelectSeq(rows, InYear)

\* filter_for_burglary_property_incidents: the rows of the mask, the raw
\* type kept as Original_Incident_Type, the type set to "Property Crime"
PropertyRow(r) == IsProperty(r.type)
Regroup(r) == [count |-> r.count, zip |-> r.zip, year |-> r.year,
               type |-> PropertyCrime, orig |-> r.type]
filter_for_burglary_property_incidents(rows) ==
    LET kept == SelectSeq(rows, PropertyRow)
    IN [k \in 1..Len(kept) |-> Regroup(kept[k])]

\* variant: the isin filter is left out
InCacheAny(z, zc) == TRUE
\* df_filtered[notna()] and then [isin(zip_coordinates.keys())]
InCache(z, zc) == z \in DOMAIN zc
CleanRows(rows, zc) ==
    LET valid(r) == notna(r.zip) /\ InCache(r.zip, zc)
    IN SelectSeq(filter_for_burglary_property_incidents(df_2024(rows)), valid)

\* groupby sorts its group keys: by zip code, then by the string
KeyLess(a, b) == a[1] < b[1] \/ (a[1] = b[1] /\ StrLess(a[2], b[2]))
RECURSIVE SortKeys(_)
SortKeys(S) ==
    IF S = {} THEN <<>>
    ELSE LET m == CHOOSE x \in S : \A y \in S \ {x} : KeyLess(x, y)
         IN <<m>> \o SortKeys(S \ {m})

RECURSIVE SumSeq(_)
SumSeq(s) == IF Len(s) = 0 THEN 0 ELSE s[1] + SumSeq(Tail(s))

\* .sum() of the count column over the rows of one group
GroupSum(g) == SumSeq([k \in 1..Len(g) |-> g[k].count])

\* variant: .max() instead of .sum()
GroupMax(g) ==
    LET cs == {g[k].count : k \in 1..Len(g)}
    IN CHOOSE c \in cs : \A d \in cs : c >= d
incident_details_max(clean) ==
    LET keys == SortKeys({<<clean[k].zip, clean[k].orig>> : k \in 1..Len(clean)})
    IN [k \in 1..Len(keys) |->
          LET inGroup(r) == r.zip = keys[k][1] /\ r.orig = keys[k][2]
          IN [zip |-> keys[k][1], orig |-> keys[k][2], count |-> GroupMax(SelectSeq(clean, inGroup))]]

\* df_clean.groupby(["Zip Code", "Original_Incident_Type"])[count].sum()
incident_details(clean) ==
    LET keys == SortKeys({<<clean[k].zip, clean[k].orig>> : k \in 1..Len(clean)})
    IN [k \in 1..Len(keys) |->
          LET inGroup(r) == r.zip = keys[k][1] /\ r.orig = keys[k][2]
          IN [zip |-> keys[k][1], orig |-> keys[k][2], count |-> GroupSum(SelectSeq(clean, inGroup))]]

\* dict(zip(x["Original_Incident_Type"], x[count])) of one zip code
incident_counts(details, z) ==
    LET ofZip(d) == d.zip = z
        g == SelectSeq(details, ofZip)
    IN [k \in 1..Len(g) |-> <<g[k].orig, g[k].count>>]

\* zip_coordinates[x]; for x not a key it raises KeyError (see KeyErrorIn) and
\* no value is produced
CoordOf(zc, z) == IF z \in DOMAIN zc THEN zc[z] ELSE <<0, 0>>
\* grouped["Zip Code"].map(lambda x: zip_coordinates[x][0]) raises KeyError
KeyErrorIn(clean, zc) == \E k \in 1..Len(clean) : clean[k].zip \notin DOMAIN zc

\* df_clean.groupby(["Zip Code", "Type of Incident"])[count].sum() with the
\* Incident_Counts, lat and lon columns
grouped(clean, zc) ==
    LET keys == SortKeys({<<clean[k].zip, clean[k].type>> : k \in 1..Len(clean)})
        details == incident_details(clean)
    IN [k \in 1..Len(keys) |->
          LET inGroup(r) == r.zip = keys[k][1] /\ r.type = keys[k][2]
          IN [zip |-> keys[k][1], type |-> keys[k][2],
              count |-> GroupSum(SelectSeq(clean, inGroup)),
              Incident_Counts |-> incident_counts(details, keys[k][1]),
              lat |-> CoordOf(zc, keys[k][1])[1],
              lon |-> CoordOf(zc, keys[k][1])[2]]]

\* ---------------------------------------------------------------- markers
Counts(md) == {md[k].count : k \in 1..Len(md)}
min_count(md) == CHOOSE c \in Counts(md) : \A d \in Counts(md) : c <= d
max_count(md) == CHOOSE c \in Counts(md) : \A d \in Counts(md) : c >= d

\* variant: 5 + normalized * 30
scale_marker_size_wide(count, lo, hi) ==
    IF hi = lo THEN <<SizeWhenFlat, 1>>
    ELSE <<SizeMin * (hi - lo) + (count - lo) * (SizeSpan + SizeMin), hi - lo>>

\* scale_marker_size(count), as a fraction
scale_marker_size(count, lo, hi) ==
    IF hi = lo THEN <<SizeWhenFlat, 1>>
    ELSE <<SizeMin * (hi - lo) + (count - lo) * SizeSpan, hi - lo>>

\* sorted(items, key=lambda x: x[1], reverse=True): stable, so items of
\* equal count keep the order they have in items
InsertDesc(s, x) ==
    LET p == Cardinality({k \in 1..Len(s) : s[k][2] >= x[2]})
    IN SubSeq(s, 1, p) \o <<x>> \o SubSeq(s, p + 1, Len(s))
\* variant: sorted ascending and then reversed, which reverses the ties
InsertDescBefore(s, x) ==
    LET p == Cardinality({k \in 1..Len(s) : s[k][2] > x[2]})
    IN SubSeq(s, 1, p) \o <<x>> \o SubSeq(s, p + 1, Len(s))
RECURSIVE sorted_incidents_reversed(_)
sorted_incidents_reversed(items) ==
    IF Len(items) = 0 THEN <<>>
    ELSE InsertDescBefore(sorted_incidents_reversed(SubSeq(items, 1, Len(items) - 1)),
                          items[Len(items)])

RECURSIVE sorted_incidents(_)
sorted_incidents(items) ==
    IF Len(items) = 0 THEN <<>>
    ELSE InsertDesc(sorted_incidents(SubSeq(items, 1, Len(items) - 1)), items[Len(items)])

\* the marker of one row of map_data
Marker(row, lo, hi) ==
    [zip |-> row.zip, count |-> row.count,
     size |-> scale_marker_size(row.count, lo, hi),
     sorted_incidents |-> sorted_incidents(row.Incident_Counts)]

\* ------------------------------------------------------------------ state
VARIABLES
    dataFile,         \* the input CSV on disk: None (unreadable) or its rows
    cacheFile,        \* dallas_zip_coordinates.json on disk
    pc,               \* where main() is
    df,               \* main: df
    zip_coordinates,  \* main: zip_coordinates
    loaded,           \* what load_coordinates_cache returned in this run
    response,         \* main: response, the answer typed at the prompt
    unique_zips,      \* create_zip_coordinates_cache: unique_zips
    i,                \* create_zip_coordinates_cache: the loop index
    coordinates,      \* create_zip_coordinates_cache: coordinates
    outcomes,         \* how each geocoding request of this run ended
    trace,            \* the effects of this run, in order: prompt, sleep,
                      \* request, save (of the cache), html (of the map)
    df_clean,         \* prepare_map_data: df_clean
    map_data,         \* main: map_data
    markers           \* create_incident_map: the markers added to the map

vars == <<dataFile, cacheFile, pc, df, zip_coordinates, loaded, response,
          unique_zips, i, coordinates, outcomes, trace, df_clean, map_data, markers>>

\* the state before main() starts, for the given files
Fresh(data, file) ==
    /\ dataFile = data
    /\ cacheFile = file
    /\ pc = "start"
    /\ df = None
    /\ zip_coordinates = None
    /\ loaded = None
    /\ response = <<>>
    /\ unique_zips = <<>>
    /\ i = 0
    /\ coordinates = <<>>
    /\ outcomes = <<>>
    /\ trace = <<>>
    /\ df_clean = <<>>
    /\ map_data = <<>>
    /\ markers = <<>>

Init ==
    \E data \in {None} \cup {Some(rows) : rows \in SeqsUpTo(FillRows, MaxRows)},
       file \in CacheFiles :
        Fresh(data, file)

\* main: df = load_police_data(); if df is None: return
LoadPoliceData ==
    /\ pc = "start"
    /\ df' = dataFile
    /\ pc' = IF IsNone(dataFile) THEN "done" ELSE "load_cache"
    /\ UNCHANGED <<dataFile, cacheFile, zip_coordinates, loaded, response, unique_zips,
                   i, coordinates, outcomes, trace, df_clean, map_data, markers>>

\* main: zip_coordinates = load_coordinates_cache()
LoadCoordinatesCache ==
    /\ pc = "load_cache"
    /\ zip_coordinates' = load_coordinates_cache(cacheFile)
    /\ loaded' = zip_coordinates'
    /\ pc' = IF NeedsFill(zip_coordinates') THEN "prompt" ELSE "prepare"
    /\ UNCHANGED <<dataFile, cacheFile, df, response, unique_zips,
                   i, coordinates, outcomes, trace, df_clean, map_data, markers>>

\* main: response = input("Continue? (y/n): ")
Prompt ==
    /\ pc = "prompt"
    /\ \E r \in Answers :
        /\ response' = r
        /\ pc' = IF Declined(r) THEN "done" ELSE "create_cache"
    /\ trace' = Append(trace, <<"prompt", 0>>)
    /\ UNCHANGED <<dataFile, cacheFile, df, zip_coordinates, loaded, unique_zips,
                   i, coordinates, outcomes, df_clean, map_data, markers>>

\* create_zip_coordinates_cache, up to the loop
CreateCacheStart ==
    /\ pc = "create_cache"
    /\ unique_zips' = UniqueZips(Val(df))
    /\ coordinates' = <<>>
    /\ i' = 1
    /\ pc' = "geocode"
    /\ UNCHANGED <<dataFile, cacheFile, df, zip_coordinates, loaded, response,
                   outcomes, trace, df_clean, map_data, markers>>

\* create_zip_coordinates_cache, one turn of the loop
GeocodeNext ==
    /\ pc = "geocode"
    /\ i <= total_zips(unique_zips)
    /\ \E o \in Outcomes :
        LET zip_code == unique_zips[i]
            g == geocode_zip_code(zip_code, o)
        IN /\ trace' = trace \o g.events
           /\ outcomes' = Append(outcomes, o)
           /\ IF g.raised
              THEN /\ pc' = "crashed"
                   /\ UNCHANGED <<coordinates, i>>
              ELSE /\ coordinates' =
                        IF IsNone(g.result) THEN coordinates
                        ELSE [z \in DOMAIN coordinates \cup {zip_code} |->
                                IF z = zip_code THEN Val(g.result) ELSE coordinates[z]]
                   /\ i' = i + 1
                   /\ pc' = pc
    /\ UNCHANGED <<dataFile, cacheFile, df, zip_coordinates, loaded, response,
                   unique_zips, df_clean, map_data, markers>>

\* create_zip_coordinates_cache returns; main: if zip_coordinates: ... else: return
CreateCacheReturn ==
    /\ pc = "geocode"
    /\ i > total_zips(unique_zips)
    /\ zip_coordinates' = Some(coordinates)
    /\ pc' = IF Truthy(coordinates) THEN "save" ELSE "done"
    /\ UNCHANGED <<dataFile, cacheFile, df, loaded, response, unique_zips,
                   i, coordinates, outcomes, trace, df_clean, map_data, markers>>

\* main: save_coordinates_cache(zip_coordinates); open() may fail, and the
\* exception then leaves main
SaveCoordinatesCache ==
    /\ pc = "save"
    /\ trace' = Append(trace, <<"save", 0>>)
    /\ \E w \in {"ok", "io_error"} :
        IF w = "ok"
        THEN /\ cacheFile' = save_coordinates_cache(Val(zip_coordinates))
             /\ pc' = "prepare"
        ELSE /\ cacheFile' = cacheFile
             /\ pc' = "crashed"
    /\ UNCHANGED <<dataFile, df, zip_coordinates, loaded, response, unique_zips,
                   i, coordinates, outcomes, df_clean, map_data, markers>>

\* main: map_data = prepare_map_data(df, zip_coordinates); if len(map_data) == 0: return
PrepareMapData ==
    /\ pc = "prepare"
    /\ LET clean == CleanRows(Val(df), Val(zip_coordinates))
           g == grouped(clean, Val(zip_coordinates))
       IN /\ df_clean' = clean
          /\ IF KeyErrorIn(clean, Val(zip_coordinates))
             THEN /\ pc' = "crashed"
                  /\ map_data' = map_data
             ELSE /\ map_data' = g
                  /\ pc' = IF Len(g) = 0 THEN "done" ELSE "create_map"
    /\ UNCHANGED <<dataFile, cacheFile, df, zip_coordinates, loaded, response, unique_zips,
                   i, coordinates, outcomes, trace, markers>>

\* main: incident_map = create_incident_map(map_data, zip_coordinates)
CreateIncidentMap ==
    /\ pc = "create_map"
    /\ markers' = [k \in 1..Len(map_data) |->
                      Marker(map_data[k], min_count(map_data), max_count(map_data))]
    /\ pc' = "save_map"
    /\ UNCHANGED <<dataFile, cacheFile, df, zip_coordinates, loaded, response, unique_zips,
                   i, coordinates, outcomes, trace, df_clean, map_data>>

\* main: incident_map.save(str(output_path))
SaveMap ==
    /\ pc = "save_map"
    /\ trace' = Append(trace, <<"html", 0>>)
    /\ pc' = "done"
    /\ UNCHANGED <<dataFile, cacheFile, df, zip_coordinates, loaded, response, unique_zips,
                   i, coordinates, outcomes, df_clean, map_data, markers>>

Next ==
    \/ LoadPoliceData
    \/ LoadCoordinatesCache
    \/ Prompt
    \/ CreateCacheStart
    \/ GeocodeNext
    \/ CreateCacheReturn
    \/ SaveCoordinatesCache
    \/ PrepareMapData
    \/ CreateIncidentMap
    \/ SaveMap

Spec == Init /\ [][Next]_vars

\* The aggregation runs: main() after a cache was loaded, for every input
\* of AggRows and every cache over the zip codes
InitAgg ==
    \E rows \in SeqsUpTo(AggRows, MaxAggRows), S \in SUBSET Zips :
        /\ dataFile = Some(rows)
        /\ cacheFile = JsonFile(ToJson(CacheOver(S)))
        /\ pc = "prepare"
        /\ df = Some(rows)
        /\ zip_coordinates = Some(CacheOver(S))
        /\ loaded = Some(CacheOver(S))
        /\ response = <<>>
        /\ unique_zips = <<>>
        /\ i = 0
        /\ coordinates = <<>>
        /\ outcomes = <<>>
        /\ trace = <<>>
        /\ df_clean = <<>>
        /\ map_data = <<>>
        /\ markers = <<>>

NextAgg ==
    \/ PrepareMapData
    \/ CreateIncidentMap
    \/ SaveMap

SpecAgg == InitAgg /\ [][NextAgg]_vars

\* ------------------------------------------------- what the claims speak of
IsRequest(e) == e[1] = "request"
\* the zip codes passed to geocode_zip_code in this run, in order
Requested ==
    LET rs == SelectSeq(trace, IsRequest)
    IN [k \in 1..Len(rs) |-> rs[k][2]]
CountOf(kind) == Cardinality({k \in 1..Len(trace) : trace[k][1] = kind})
\* the keys of the cache returned by load_coordinates_cache
LoadedKeys == IF IsNone(loaded) THEN {} ELSE DOMAIN Val(loaded)
\* the distinct non-null zip codes of the input
InputZips == IF IsNone(dataFile) THEN {} ELSE Range(ZipColumn(Val(dataFile))) \ {NaN}
RunOver == pc \in {"done", "crashed"}
\* create_zip_coordinates_cache was called and has returned
FillPassDone == i >= 1 /\ pc # "geocode"
\* the zip codes whose request ended in a result
Resolved == {Requested[k] : k \in {j \in 1..Len(outcomes) : outcomes[j] = "ok"}}
\* the first row of the input with this zip code
FirstRowOf(z) ==
    CHOOSE k \in 1..Len(Val(dataFile)) :
        /\ Val(dataFile)[k].zip = z
        /\ \A j \in 1..(k - 1) : Val(dataFile)[j].zip # z
\* a row of the input that passes the year filter and the classifier
Passes(r) ==
    /\ r.year = Year2024
    /\ LET upper == Upper(r.type)
       IN \E kw \in property_keywords : Contains(upper, kw)
\* the sum of the counts of the rows of the input that pass the filters and
\* have a zip code of Z
PassingTotal(Z) ==
    LET inZ(r) == Passes(r) /\ r.zip \in Z
        g == SelectSeq(Val(dataFile), inZ)
    IN SumSeq([k \in 1..Len(g) |-> g[k].count])
CacheKeys == DOMAIN Val(zip_coordinates)
\* prepare_map_data has run
Prepared == ~IsNone(zip_coordinates) /\ pc \in {"create_map", "save_map", "done", "crashed"}
\* a fraction equals an integer, or half an integer
FracEq(f, n) == f[1] = n * f[2]
FracEqHalves(f, h) == 2 * f[1] = h * f[2]

\* C1, as stated: at the end of every run (one ended by declining the
\* prompt set aside), every distinct non-null zip code of the input that is
\* not a key of the loaded cache has been passed to geocode_zip_code, also
\* when a cache was loaded.
C1_FillsEveryUncachedZip ==
    (pc = "done" /\ (CountOf("prompt") = 1 => Lower(response) = <<"y">>)) =>
        \A z \in InputZips \ LoadedKeys : z \in Range(Requested)

\* C1, amended: in a run where no cache was loaded and the prompt was
\* accepted, every distinct non-null zip code of the input is passed to
\* geocode_zip_code; in a run where a cache was loaded, none is.
C1_FillsOnlyWithoutCache ==
    pc = "done" =>
        /\ (IsNone(loaded) /\ CountOf("prompt") = 1 /\ Lower(response) = <<"y">>)
              => InputZips \subseteq Range(Requested)
        /\ ~IsNone(loaded) => Requested = <<>>

C1_Witness ==
    /\ pc = "done"
    /\ IsNone(loaded)
    /\ Cardinality(InputZips) = 2
    /\ InputZips \subseteq Range(Requested)

\* C2, as stated: after a fill pass that looked up at least one key,
\* save_coordinates_cache is called exactly once in the run, however many
\* keys failed, all of them included.
C2_SavesOnceAfterEveryFill ==
    (RunOver /\ FillPassDone /\ Len(outcomes) >= 1) => CountOf("save") = 1

\* C2, amended: after a fill pass in which at least one key resolved,
\* save_coordinates_cache is called exactly once and, when the write
\* succeeds, the file holds exactly the resolved keys; after a fill pass
\* in which no key resolved it is not called and the file is left as it was.
C2_SavesOnceWhenSomeKeyResolved ==
    (RunOver /\ FillPassDone) =>
        IF Resolved # {}
        THEN /\ CountOf("save") = 1
             /\ pc = "done" =>
                   /\ cacheFile.kind = "json"
                   /\ DOMAIN cacheFile.obj = {IntToStr(z) : z \in Resolved}
                   /\ \A z \in Resolved : cacheFile.obj[IntToStr(z)] = ServiceCoord(z)
        ELSE /\ CountOf("save") = 0
             /\ pc = "done"
             /\ IsNone(load_coordinates_cache(cacheFile))

C2_Witness ==
    /\ pc = "done"
    /\ FillPassDone
    /\ CountOf("save") = 1
    /\ Len(outcomes) = 2
    /\ outcomes[1] = "empty"
    /\ outcomes[2] = "ok"

\* C3: geocode_zip_code is never called for a key of the cache that
\* load_coordinates_cache returned, and a run that loads a cache leaves the
\* coordinates of every key as they were, in memory and in the file.
C3_NeverReResolvesCachedKey ==
    /\ \A k \in 1..Len(Requested) : Requested[k] \notin LoadedKeys
    /\ ~IsNone(loaded) =>
          /\ zip_coordinates = loaded
          /\ cacheFile.kind = "json"
          /\ \A z \in LoadedKeys : cacheFile.obj[IntToStr(z)] = Val(loaded)[z]

C3_Witness ==
    /\ pc = "done"
    /\ ~IsNone(loaded)
    /\ LoadedKeys \cap InputZips # {}
    /\ InputZips \ LoadedKeys # {}
    /\ CountOf("html") = 1

\* C4, as stated: no geocoding call without the answer 'y', and any other
\* answer ends the run with no geocoding call, no cache write and no map.
C4_OnlyLowercaseYProceeds ==
    /\ Requested # <<>> => (trace[1] = <<"prompt", 0>> /\ response = <<"y">>)
    /\ (CountOf("prompt") = 1 /\ response # <<"y">>) => (pc = "done" /\ Len(trace) = 1)

\* C4, amended: when no cache was loaded the prompt comes before the first
\* geocoding call; no geocoding call without an answer that is 'y' once
\* lower-cased, and any other answer ends the run with no geocoding call,
\* no cache write and no map.
C4_OnlyYOfEitherCaseProceeds ==
    /\ Requested # <<>> =>
          (IsNone(loaded) /\ trace[1] = <<"prompt", 0>> /\ response \in {<<"y">>, <<"Y">>})
    /\ (CountOf("prompt") = 1 /\ response \notin {<<"y">>, <<"Y">>}) =>
          /\ pc = "done"
          /\ trace = << <<"prompt", 0>> >>
          /\ IsNone(load_coordinates_cache(cacheFile))

C4_Witness ==
    /\ pc = "done"
    /\ response = <<"y", "e", "s">>
    /\ trace = << <<"prompt", 0>> >>
    /\ InputZips # {}

\* C5: a failed lookup never ends the batch: the run leaves main by an
\* exception only after the save was attempted; the zip codes requested so
\* far are distinct, in the order of their first rows, one request each;
\* the failed ones are left out of the mapping; and when the loop is over
\* every distinct non-null zip code of the input was requested.
C5_FailureNeverAbortsBatch ==
    /\ pc = "crashed" => CountOf("save") = 1
    /\ Len(outcomes) = Len(Requested)
    /\ \A j, k \in 1..Len(Requested) :
          j < k => /\ Requested[j] # Requested[k]
                   /\ FirstRowOf(Requested[j]) < FirstRowOf(Requested[k])
    /\ i >= 1 => DOMAIN coordinates = Resolved
    /\ FillPassDone => Range(Requested) = InputZips

C5_Witness ==
    /\ FillPassDone
    /\ Len(outcomes) = 2
    /\ outcomes[1] = "transport_error"
    /\ outcomes[2] = "ok"
    /\ DOMAIN coordinates = {Requested[2]}

\* C6: every request is immediately preceded by one delay of the default
\* length, whatever the earlier call ended in, and there is one delay per
\* request.
C6_DelayBeforeEveryRequest ==
    /\ \A k \in 1..Len(trace) :
          IsRequest(trace[k]) => (k > 1 /\ trace[k - 1] = <<"sleep", DefaultDelayMs>>)
    /\ CountOf("sleep") = CountOf("request")

C6_Witness ==
    /\ Len(Requested) = 2
    /\ outcomes[1] = "http_error"
    /\ trace[Len(trace) - 1] = <<"sleep", DefaultDelayMs>>
    /\ IsRequest(trace[Len(trace)])

\* C7, as stated: with all counts equal every marker has the midpoint size
\* 17.5; otherwise the marker of the least count has size 5 and the marker
\* of the greatest count size 30.
C7_FlatRangeGivesMidpoint ==
    \A k \in 1..Len(markers) :
        LET lo == min_count(map_data)
            hi == max_count(map_data)
        IN IF hi = lo THEN FracEqHalves(markers[k].size, 35)
           ELSE /\ markers[k].count = lo => FracEq(markers[k].size, 5)
                /\ markers[k].count = hi => FracEq(markers[k].size, 30)

\* C7, amended: with all counts equal every marker has size 15; otherwise
\* the marker of the least count has size 5 and the marker of the greatest
\* count size 30.
C7_FlatRangeGivesFifteen ==
    \A k \in 1..Len(markers) :
        LET lo == min_count(map_data)
            hi == max_count(map_data)
        IN /\ markers[k].size[2] # 0
           /\ IF hi = lo THEN FracEq(markers[k].size, 15)
              ELSE /\ markers[k].count = lo => FracEq(markers[k].size, 5)
                   /\ markers[k].count = hi => FracEq(markers[k].size, 30)

C7_Witness ==
    /\ Len(markers) = 2
    /\ markers[1].count < markers[2].count
    /\ FracEq(markers[1].size, 5)
    /\ FracEq(markers[2].size, 30)

\* C8: for every record of map_data the values of Incident_Counts add up
\* to its total, and the total is the sum of the counts of the input rows
\* of its zip code that pass the year filter, the classifier and the cache
\* filter.
C8_BreakdownSumsToTotal ==
    \A k \in 1..Len(map_data) :
        LET rec == map_data[k]
            values == [j \in 1..Len(rec.Incident_Counts) |-> rec.Incident_Counts[j][2]]
        IN /\ SumSeq(values) = rec.count
           /\ rec.count = PassingTotal({rec.zip} \cap CacheKeys)

C8_Witness ==
    /\ Len(map_data) = 1
    /\ Len(map_data[1].Incident_Counts) = 2
    /\ map_data[1].count = 3
    /\ Len(df_clean) = 2

\* the first of the aggregated rows of a zip code with this raw type
FirstCleanRowOf(z, t) ==
    CHOOSE k \in 1..Len(df_clean) :
        /\ df_clean[k].zip = z /\ df_clean[k].orig = t
        /\ \A j \in 1..(k - 1) : ~(df_clean[j].zip = z /\ df_clean[j].orig = t)

\* C9, as stated: in the displayed breakdown, descending by count,
\* sub-types of equal count are in the order in which they first occur in
\* the input rows.
C9_TiesInInputOrder ==
    \A m \in 1..Len(markers) :
        LET s == markers[m].sorted_incidents
        IN \A j, k \in 1..Len(s) :
              j < k => /\ s[j][2] >= s[k][2]
                       /\ s[j][2] = s[k][2] =>
                             FirstCleanRowOf(markers[m].zip, s[j][1])
                                < FirstCleanRowOf(markers[m].zip, s[k][1])

\* C9, amended: in the displayed breakdown, descending by count, sub-types
\* of equal count are in ascending order of their raw type as strings,
\* whatever the order of the input rows.
C9_TiesInStringOrder ==
    \A m \in 1..Len(markers) :
        LET s == markers[m].sorted_incidents
        IN \A j, k \in 1..Len(s) :
              j < k => /\ s[j][2] >= s[k][2]
                       /\ s[j][2] = s[k][2] => StrLess(s[j][1], s[k][1])

C9_Witness ==
    \E m \in 1..Len(markers) :
        LET s == markers[m].sorted_incidents
        IN /\ Len(s) = 2
           /\ s[1][2] = s[2][2]
           /\ FirstCleanRowOf(markers[m].zip, s[2][1]) < FirstCleanRowOf(markers[m].zip, s[1][1])

\* C10: prepare_map_data keeps no row whose zip code is null or not a key
\* of the cache; every record has a zip code of the cache and at least one
\* input row that passes every filter; the totals add up to the counts of
\* the passing rows with a cached zip code and nothing else.
C10_DropsUncachedAndNullZips ==
    Prepared =>
        /\ \A k \in 1..Len(df_clean) :
              df_clean[k].zip # NaN /\ df_clean[k].zip \in CacheKeys
        /\ \A k \in 1..Len(map_data) :
              /\ map_data[k].zip # NaN
              /\ map_data[k].zip \in CacheKeys
              /\ \E j \in 1..Len(Val(dataFile)) :
                    Passes(Val(dataFile)[j]) /\ Val(dataFile)[j].zip = map_data[k].zip
        /\ SumSeq([k \in 1..Len(map_data) |-> map_data[k].count]) = PassingTotal(CacheKeys \ {NaN})
        /\ \A j \in 1..Len(Val(dataFile)) :
              LET r == Val(dataFile)[j]
              IN (Passes(r) /\ r.zip # NaN /\ r.zip \in CacheKeys) =>
                    \E k \in 1..Len(map_data) : map_data[k].zip = r.zip

C10_Witness ==
    /\ Prepared
    /\ Len(map_data) = 1
    /\ Len(df_clean) = 1
    /\ \E j \in 1..Len(Val(dataFile)) :
          Passes(Val(dataFile)[j]) /\ Val(dataFile)[j].zip \in Zips \ CacheKeys
====
